---------------------------- MODULE Spec2Model ----------------------------
(* Model of parcels/particleset.py: the chunked particle store of          *)
(* ParticleSet (_plist, _pid_mapping_bounds, pclass.lastID), its mutators  *)
(* add / remove / pop / _remove_ / _merge_brackets_, the global index      *)
(* resolver get_list_array_index / __getitem__, and the stepping loop of   *)
(* ParticleSet.execute.                                                    *)
(*                                                                         *)
(* Indices are kept 0-based as in the source; TLA+ sequences are 1-based,  *)
(* so chunk b of the source is plist[b + 1].  Times are integers (seconds) *)
(* and np.infty is the pair of sentinels PosInf / NegInf with saturating   *)
(* arithmetic.                                                             *)
EXTENDS Integers, Sequences, FiniteSets, TLC

VARIABLES
    plist,              \* self._plist: sequence of chunks, each a sequence of particle records
    pid_mapping_bounds, \* self._pid_mapping_bounds: per chunk <<min_id, max_id, size_bracket>>
    lastID,             \* pclass.lastID, the process-wide identity counter
    last,               \* the most recent operation: its name, arguments, outcome and result
    nops,               \* number of store operations performed so far
    repeat,             \* repeat-release template: repeatdt, repeat_starttime, repeatpid
    args,               \* the arguments of the running execute(...) call
    pc,                 \* position of execute: "off", "idle", "loop", "exit", "done", "failed"
    dt,                 \* dt after the single-shot adjustment
    endtime,            \* endtime as derived from the arguments
    execute_once,       \* the single-shot flag
    time,               \* the loop variable time (current_time)
    next_prelease, next_input, next_output, next_movie, next_callback,
    outputdt, moviedt, callbackdt,   \* the intervals after their defaults are applied
    iter,               \* the latest loop iteration: target time, next_* before it, events in order
    hist                \* what the run has done so far: kernel calls, releases, writes, shows

(***************************************************************************)
(* Bounds of the model                                                     *)
(***************************************************************************)
\* self.nlist_limit (4096 in the source), scaled down so that several chunks exist
nlist_limit == 4
\* largest population constructed in one ParticleSet(...) call
MaxNew == 5
\* largest total population of the store
MaxTotal == 5
\* the identity counter is not advanced beyond this value
MaxID == 5
\* longest index array passed to remove / pop
MaxIdx == 2
\* longest sequence of store operations after the first construction
MaxOps == 4

(***************************************************************************)
(* Program constants                                                       *)
(***************************************************************************)
\* np.iinfo(np.int32).max
int32_max == 2147483647
\* np.iinfo(np.int32).min
int32_min == -int32_max - 1

(***************************************************************************)
(* Helpers                                                                 *)
(***************************************************************************)
Min2(a, b) == IF a <= b THEN a ELSE b
Max2(a, b) == IF a >= b THEN a ELSE b
SetMin(S) == CHOOSE x \in S : \A y \in S : x <= y
SetMax(S) == CHOOSE x \in S : \A y \in S : x >= y
Range(s) == {s[i] : i \in 1..Len(s)}

\* np.arange(n), as a sequence
arange(n) == [i \in 1..n |-> i - 1]

\* a particle record; dt is 0 until execute stamps it
Particle(pid, t) == [id |-> pid, time |-> t, dt |-> 0]

\* a slot of np.empty(..., dtype=pclass) that has not been assigned yet
Uninit == [id |-> -1, time |-> 0, dt |-> 0]

RECURSIVE convert_pset_to_static_list(_)
\* all records in chunk-concatenation order
convert_pset_to_static_list(pl) ==
    IF pl = <<>> THEN <<>>
    ELSE Head(pl) \o convert_pset_to_static_list(Tail(pl))

RECURSIVE SumCounts(_)
SumCounts(bd) == IF bd = <<>> THEN 0 ELSE Head(bd)[3] + SumCounts(Tail(bd))

\* ParticleSet.size: the sum of the cached chunk counts
size(bd) == SumCounts(bd)

(***************************************************************************)
(* ParticleSet.__init__                                                    *)
(***************************************************************************)
RECURSIVE AllocLoop(_, _, _, _, _)
\* the while loop that allocates the chunks and their sentinel summaries
AllocLoop(n, start_index, end_index, pl, bd) ==
    IF end_index < n
    THEN LET e == Min2(n, start_index + nlist_limit)
         IN  AllocLoop(n, e, e,
                       Append(pl, SubSeq([k \in 1..(e - start_index) |-> Uninit],
                                         1, e - start_index)),
                       Append(bd, <<int32_max, int32_min, e - start_index>>))
    ELSE [plist |-> pl, bounds |-> bd]

\* the chunk that input position i is written to
FillBracket(i) == i \div nlist_limit

RECURSIVE FillLoop(_, _, _, _, _, _)
\* the for loop that writes record i into (bracket_index, slot_index)
FillLoop(i, n, pid, times, pl, bd) ==
    IF i < n
    THEN LET bracket_index == FillBracket(i)
             slot_index    == i % nlist_limit
             info          == bd[bracket_index + 1]
         IN  FillLoop(i + 1, n, pid, times,
                      [pl EXCEPT ![bracket_index + 1][slot_index + 1] =
                          Particle(pid[i + 1], times[i + 1])],
                      [bd EXCEPT ![bracket_index + 1] =
                          <<Min2(pid[i + 1], info[1]), Max2(pid[i + 1], info[2]), info[3]>>])
    ELSE [plist |-> pl, bounds |-> bd]

\* pclass.setLastID(offset + 1) with offset = max(pid), or -1 for empty input
NextLastID(pid) == (IF Len(pid) > 0 THEN SetMax(Range(pid)) ELSE -1) + 1

\* np.repeat(time, lon.size) for a time argument of size 1
np_repeat(t, n) == [i \in 1..n |-> t]

\* ParticleSet(lon = n coordinates, time = array of n times, pid_orig) with
\* counter value b
ParticleSetInitTimes(n, pid_orig, b, times) ==
    LET pid    == [i \in 1..n |-> pid_orig[i] + b]
        alloc  == AllocLoop(n, 0, 0, <<>>, <<>>)
        filled == FillLoop(0, n, pid, times, alloc.plist, alloc.bounds)
    IN  [plist |-> filled.plist, bounds |-> filled.bounds, lastID |-> NextLastID(pid)]

\* a constructor that ignores the counter: pid = pid_orig (C10 depends on the offset)
ParticleSetInit_NoOffset(n, pid_orig, b, t) ==
    LET alloc  == AllocLoop(n, 0, 0, <<>>, <<>>)
        filled == FillLoop(0, n, pid_orig, np_repeat(t, n), alloc.plist, alloc.bounds)
    IN  [plist |-> filled.plist, bounds |-> filled.bounds, lastID |-> NextLastID(pid_orig)]

\* ParticleSet(lon = n coordinates, time = t, pid_orig) with counter value b
ParticleSetInit(n, pid_orig, b, t) ==
    ParticleSetInitTimes(n, pid_orig, b, np_repeat(t, n))

(***************************************************************************)
(* Global index resolver: get_list_array_index(int) and __getitem__        *)
(***************************************************************************)
RECURSIVE IndexLoop_NoAdvance(_, _, _, _, _)
\* a resolver loop that forgets start_index = end_index (C11 depends on it)
IndexLoop_NoAdvance(bd, pdata, bracket_index, start_index, end_index) ==
    IF pdata >= end_index
    THEN IF bracket_index >= Len(bd)
         THEN [err |-> TRUE, bracket_index |-> bracket_index, slot_index |-> 0]
         ELSE IndexLoop_NoAdvance(bd, pdata, bracket_index + 1, start_index,
                                  end_index + bd[bracket_index + 1][3])
    ELSE [err |-> FALSE, bracket_index |-> bracket_index,
          slot_index |-> pdata - start_index]

RECURSIVE IndexLoop(_, _, _, _, _)
\* while pdata >= end_index: start_index = end_index;
\*     end_index = start_index + bounds[bracket_index][2]; bracket_index += 1
\* (the count is read before bracket_index is incremented)
IndexLoop(bd, pdata, bracket_index, start_index, end_index) ==
    IF pdata >= end_index
    THEN IF bracket_index >= Len(bd)
         THEN [err |-> TRUE, bracket_index |-> bracket_index, slot_index |-> 0]
         ELSE IndexLoop(bd, pdata, bracket_index + 1, end_index,
                        end_index + bd[bracket_index + 1][3])
    ELSE [err |-> FALSE, bracket_index |-> bracket_index,
          slot_index |-> pdata - start_index]

\* get_list_array_index(pdata) for an int; err is the IndexError of a list access
get_list_array_index(bd, pdata) ==
    IF Len(bd) = 0
    THEN [err |-> TRUE, bracket_index |-> 0, slot_index |-> 0]
    ELSE IndexLoop(bd, pdata, 0, 0, bd[1][3])

\* arr[k] for a numpy array: negative k counts from the end, out of range fails
NumpyIndexOk(arr, k) == -Len(arr) <= k /\ k < Len(arr)
NumpyAt(arr, k) == IF k >= 0 THEN arr[k + 1] ELSE arr[Len(arr) + k + 1]

\* __getitem__(key): the same loop, then self._plist[bracket_index][slot_index]
getitem(pl, bd, key) ==
    LET loc == get_list_array_index(bd, key)
    IN  IF loc.err \/ loc.bracket_index >= Len(pl)
        THEN [err |-> TRUE, p |-> Uninit]
        ELSE IF ~NumpyIndexOk(pl[loc.bracket_index + 1], loc.slot_index)
        THEN [err |-> TRUE, p |-> Uninit]
        ELSE [err |-> FALSE, p |-> NumpyAt(pl[loc.bracket_index + 1], loc.slot_index)]

RECURSIVE BracketScan(_, _, _, _)
\* bracket_info = self.pid_mapping_bounds[bracket_index]; while bracket_index <
\* len(self._plist) and (pdata.id < bracket_info[0] or pdata.id > bracket_info[1]):
\*     bracket_index += 1; bracket_info = self.pid_mapping_bounds[bracket_index]
\* err is the IndexError of reading a summary past the end of the list
BracketScan(pl, bd, id, bracket_index) ==
    IF bracket_index >= Len(bd)
    THEN [err |-> TRUE, bracket_index |-> bracket_index]
    ELSE IF bracket_index < Len(pl)
            /\ (id < bd[bracket_index + 1][1] \/ id > bd[bracket_index + 1][2])
    THEN BracketScan(pl, bd, id, bracket_index + 1)
    ELSE [err |-> FALSE, bracket_index |-> bracket_index]

\* the outcomes of an identity lookup: a location, the return value -1, an error
Located(bracket_index, slot_index) ==
    [outcome |-> "found", bracket_index |-> bracket_index, slot_index |-> slot_index]
NotFound == [outcome |-> "notfound", bracket_index |-> -1, slot_index |-> -1]
LookupError == [outcome |-> "error", bracket_index |-> -1, slot_index |-> -1]

\* the slots of arr that hold a record with this id
SlotsWithId(arr, id) == {k \in 1..Len(arr) : arr[k].id = id}

\* get_list_array_index(pdata) for a particle: the first chunk whose
\* [min_id, max_id] range holds pdata.id, then a linear scan of that chunk only
get_list_array_index_of_particle(pl, bd, id) ==
    LET s == BracketScan(pl, bd, id, 0)
    IN  IF s.err THEN LookupError
        ELSE IF s.bracket_index >= Len(pl) THEN NotFound
        ELSE IF SlotsWithId(pl[s.bracket_index + 1], id) = {} THEN NotFound
        ELSE Located(s.bracket_index, SetMin(SlotsWithId(pl[s.bracket_index + 1], id)) - 1)

\* get_list_array_index_by_PID(pdata): all chunks are scanned; -1 unless exactly
\* one record has the id
get_list_array_index_by_PID(pl, id) ==
    LET located_particle ==
            {<<b, k>> \in (1..Len(pl)) \X (1..Len(convert_pset_to_static_list(pl))) :
                 k <= Len(pl[b]) /\ pl[b][k].id = id}
    IN  IF Cardinality(located_particle) # 1 THEN NotFound
        ELSE LET loc == CHOOSE x \in located_particle : TRUE
             IN  Located(loc[1] - 1, loc[2] - 1)

(***************************************************************************)
(* _remove_ and _merge_brackets_                                           *)
(***************************************************************************)
\* np.delete(arr, local_indices)
NumpyDelete(arr, local_indices) ==
    LET keep == {k \in 1..Len(arr) : (k - 1) \notin Range(local_indices)}
        f[k \in 0..Len(arr)] ==
            IF k = 0 THEN <<>>
            ELSE IF k \in keep THEN Append(f[k - 1], arr[k]) ELSE f[k - 1]
    IN  f[Len(arr)]

\* del seq[k] (0-based k)
DelAt(seq, k) == SubSeq(seq, 1, k) \o SubSeq(seq, k + 2, Len(seq))

\* list.remove(v): drops the first element equal to v
ListRemove(seq, v) ==
    LET first == SetMin({j \in 1..Len(seq) : seq[j] = v})
    IN  DelAt(seq, first - 1)

\* (np.min(local_ids), np.max(local_ids), local_ids.shape[0]) of a non-empty chunk
Summary(arr) ==
    LET local_ids == {arr[k].id : k \in 1..Len(arr)}
    IN  <<SetMin(local_ids), SetMax(local_ids), Len(arr)>>

\* the summary entry dropped when chunk bracket_index has been emptied:
\* self._pid_mapping_bounds.remove(self._pid_mapping_bounds[bracket_index])
DropSummary(bd, bracket_index) == ListRemove(bd, bd[bracket_index + 1])

\* _remove_(bracket_index, local_indices); err is the IndexError raised by
\* self._plist[bracket_index][local_indices] before anything is changed
_remove_(pl, bd, bracket_index, local_indices) ==
    IF bracket_index >= Len(pl)
       \/ \E k \in 1..Len(local_indices) :
              ~NumpyIndexOk(pl[bracket_index + 1], local_indices[k])
    THEN [err |-> TRUE, plist |-> pl, bounds |-> bd, ret |-> <<>>]
    ELSE LET arr      == pl[bracket_index + 1]
             return_p == [k \in 1..Len(local_indices) |-> NumpyAt(arr, local_indices[k])]
             rest     == NumpyDelete(arr, local_indices)
             pl1      == [pl EXCEPT ![bracket_index + 1] = rest]
         IN  IF Len(rest) > 0
             THEN [err |-> FALSE, plist |-> pl1,
                   bounds |-> [bd EXCEPT ![bracket_index + 1] = Summary(rest)],
                   ret |-> return_p]
             ELSE IF Len(pl1) > 1
             THEN [err |-> FALSE, plist |-> DelAt(pl1, bracket_index),
                   bounds |-> DropSummary(bd, bracket_index),
                   ret |-> return_p]
             ELSE [err |-> FALSE, plist |-> pl1,
                   bounds |-> [bd EXCEPT ![bracket_index + 1] = <<int32_max, int32_min, 0>>],
                   ret |-> return_p]

\* int(self.nlist_limit / 2)
lw_bound_nlist == nlist_limit \div 2

\* the chunks the scan of _merge_brackets_ sees as undersized (by cached count)
Undersized(pl, bd) ==
    {b \in 0..(Len(pl) - 1) : b < Len(bd) /\ bd[b + 1][3] < lw_bound_nlist}

\* a compaction that stops after its first merge (C19 depends on the while loop)
_merge_brackets_Once(pl, bd) ==
    LET U == Undersized(pl, bd)
    IN  IF Cardinality(U) < 2
        THEN [err |-> FALSE, plist |-> pl, bounds |-> bd]
        ELSE LET trg_bracket_index == SetMin(U)
                 src_bracket_index == SetMin(U \ {trg_bracket_index})
                 merged == pl[trg_bracket_index + 1] \o pl[src_bracket_index + 1]
             IN  IF merged = <<>>
                 THEN [err |-> TRUE, plist |-> pl, bounds |-> bd]
                 ELSE [err |-> FALSE,
                       plist |-> DelAt([pl EXCEPT ![trg_bracket_index + 1] = merged],
                                       src_bracket_index),
                       bounds |-> DelAt([bd EXCEPT ![trg_bracket_index + 1] = Summary(merged)],
                                        src_bracket_index)]

RECURSIVE _merge_brackets_(_, _)
\* while nmerges > 0: merge the second undersized chunk into the first one
_merge_brackets_(pl, bd) ==
    LET U == Undersized(pl, bd)
    IN  IF Cardinality(U) < 2
        THEN [err |-> FALSE, plist |-> pl, bounds |-> bd]
        ELSE LET trg_bracket_index == SetMin(U)
                 src_bracket_index == SetMin(U \ {trg_bracket_index})
                 merged == pl[trg_bracket_index + 1] \o pl[src_bracket_index + 1]
             IN  IF merged = <<>>
                 THEN [err |-> TRUE, plist |-> pl, bounds |-> bd]
                 ELSE _merge_brackets_(
                          DelAt([pl EXCEPT ![trg_bracket_index + 1] = merged],
                                src_bracket_index),
                          DelAt([bd EXCEPT ![trg_bracket_index + 1] = Summary(merged)],
                                src_bracket_index))

(***************************************************************************)
(* pop / remove                                                            *)
(***************************************************************************)
RECURSIVE WrapLoop(_, _, _)
\* while gindex < 0: gindex = ncounter + gindex.  With ncounter = 0 the loop
\* never ends; fuel counts the iterations that can still make progress.
WrapLoop(gindex, ncounter, fuel) ==
    IF gindex >= 0 THEN [hang |-> FALSE, gindex |-> gindex]
    ELSE IF ncounter <= 0 \/ fuel = 0 THEN [hang |-> TRUE, gindex |-> gindex]
    ELSE WrapLoop(ncounter + gindex, ncounter, fuel - 1)

RECURSIVE ResolveLoop(_, _, _, _, _)
\* for gindex in indices: resolve against the layout before any removal and
\* collect the slots per chunk (lindices; <<>> stands for None)
ResolveLoop(indices, k, ncounter, bd, lindices) ==
    IF k > Len(indices) THEN [outcome |-> "ok", lindices |-> lindices]
    ELSE LET w == WrapLoop(indices[k], ncounter, -indices[k])
         IN  IF w.hang THEN [outcome |-> "hang", lindices |-> lindices]
             ELSE LET loc == get_list_array_index(bd, w.gindex)
                  IN  IF loc.err \/ loc.bracket_index >= Len(lindices)
                      THEN [outcome |-> "error", lindices |-> lindices]
                      ELSE ResolveLoop(indices, k + 1, ncounter, bd,
                               [lindices EXCEPT ![loc.bracket_index + 1] =
                                    Append(@, loc.slot_index)])

RECURSIVE RemoveLoop(_, _, _, _, _)
\* for bracket_index in range(len(lindices)): _remove_(bracket_index, local_indices)
\* on the store as the earlier iterations left it
RemoveLoop(bracket_index, lindices, pl, bd, result) ==
    IF bracket_index >= Len(lindices)
    THEN [outcome |-> "ok", plist |-> pl, bounds |-> bd, ret |-> result]
    ELSE IF lindices[bracket_index + 1] = <<>>
    THEN RemoveLoop(bracket_index + 1, lindices, pl, bd, result)
    ELSE LET r == _remove_(pl, bd, bracket_index, lindices[bracket_index + 1])
         IN  IF r.err
             THEN [outcome |-> "error", plist |-> pl, bounds |-> bd, ret |-> result]
             ELSE RemoveLoop(bracket_index + 1, lindices, r.plist, r.bounds,
                             result \o r.ret)

\* the common body of pop(indices) and remove(indices) for a scalar or an
\* ndarray of global indices: resolve, remove chunk by chunk, compact
RemoveGlobal(pl, bd, indices) ==
    LET ncounter == SumCounts(bd)
        res      == ResolveLoop(indices, 1, ncounter, bd,
                                SubSeq([b \in 1..Len(pl) |-> <<>>], 1, Len(pl)))
    IN  IF res.outcome # "ok"
        THEN [outcome |-> res.outcome, plist |-> pl, bounds |-> bd, ret |-> <<>>]
        ELSE LET rm == RemoveLoop(0, res.lindices, pl, bd, <<>>)
             IN  IF rm.outcome # "ok" THEN rm
                 ELSE LET mg == _merge_brackets_(rm.plist, rm.bounds)
                      IN  [outcome |-> IF mg.err THEN "error" ELSE "ok",
                           plist |-> mg.plist, bounds |-> mg.bounds, ret |-> rm.ret]

\* an add that puts the new chunks in front (C18 depends on appending)
add_InFront(pl, bd, other) ==
    [plist |-> other.plist \o pl, bounds |-> other.bounds \o bd]

\* add(particles): self._plist += particles.particles_a, same for the summaries
add(pl, bd, other) ==
    [plist |-> pl \o other.plist, bounds |-> bd \o other.bounds]

(***************************************************************************)
(* The store as a state machine                                            *)
(***************************************************************************)
\* sequences of 2..MaxIdx distinct in-range global indices, in any order
IndexArrays(n) ==
    UNION {{s \in [1..len -> 0..(n - 1)] :
                \A i, j \in 1..len : i # j => s[i] # s[j]} : len \in 2..MaxIdx}

\* a scalar index, also negative or beyond the population
ScalarIndices(n) == {<<i>> : i \in (-(n + 1))..n}

\* b is the identity counter the operation started from
History(op, arg, outcome, ret, new) ==
    [op |-> op, arg |-> arg, outcome |-> outcome, ret |-> ret, new |-> new, b |-> lastID]

NoPset == [plist |-> <<>>, bounds |-> <<>>, lastID |-> 0]

storeVars == <<plist, pid_mapping_bounds, lastID>>
opVars == <<last, nops>>
execVars == <<repeat, args, pc, dt, endtime, execute_once, time, next_prelease, next_input,
              next_output, next_movie, next_callback, outputdt, moviedt, callbackdt,
              iter, hist>>
vars == <<storeVars, opVars, execVars>>

\* the first population of the process: ParticleSet(lon = n coordinates)
InitStore ==
    \E n \in 0..MaxNew :
        LET c == ParticleSetInit(n, arange(n), 0, 0)
        IN  /\ plist = c.plist
            /\ pid_mapping_bounds = c.bounds
            /\ lastID = c.lastID
            /\ last = [op |-> "construct", arg |-> <<n>>, outcome |-> "ok", ret |-> <<>>,
                       new |-> c, b |-> 0]
            /\ nops = 0

\* pset.add(ParticleSet(lon = n coordinates)) with n >= 1
Add ==
    \E n \in 1..MaxNew :
        /\ nops < MaxOps
        /\ nops' = nops + 1
        /\ size(pid_mapping_bounds) + n <= MaxTotal
        /\ lastID + n <= MaxID
        /\ LET c == ParticleSetInit(n, arange(n), lastID, 0)
               r == add(plist, pid_mapping_bounds, c)
           IN  /\ plist' = r.plist
               /\ pid_mapping_bounds' = r.bounds
               /\ lastID' = c.lastID
               /\ last' = History("add", <<n>>, "ok", <<>>, c)
               /\ UNCHANGED execVars

\* ParticleSet(lon = [], lat = []): an empty population is constructed
ConstructEmpty ==
    LET c == ParticleSetInit(0, <<>>, lastID, 0)
    IN  /\ nops < MaxOps
        /\ nops' = nops + 1
        /\ lastID' = c.lastID
        /\ last' = History("construct_empty", <<0>>, "ok", <<>>, c)
        /\ UNCHANGED <<plist, pid_mapping_bounds, execVars>>

RemoveOp(op, indices) ==
    LET r == RemoveGlobal(plist, pid_mapping_bounds, indices)
    IN  /\ nops < MaxOps
        /\ nops' = nops + 1
        /\ plist' = r.plist
        /\ pid_mapping_bounds' = r.bounds
        /\ last' = History(op, indices, r.outcome, r.ret, NoPset)
        /\ UNCHANGED <<lastID, execVars>>

\* pset.remove(indices)
Remove ==
    \E indices \in ScalarIndices(size(pid_mapping_bounds))
                   \cup IndexArrays(size(pid_mapping_bounds)) :
        RemoveOp("remove", indices)

\* pset.pop(indices)
Pop ==
    \E indices \in ScalarIndices(size(pid_mapping_bounds))
                   \cup IndexArrays(size(pid_mapping_bounds)) :
        RemoveOp("pop", indices)

(***************************************************************************)
(* Time arithmetic of execute: floats with np.infty                        *)
(***************************************************************************)
\* np.infty
PosInf == 1000000
NegInf == -PosInf
\* Python None for an optional argument
None == NegInf - 1

\* a + b on floats where either may be +-inf (inf - inf does not occur)
Plus(a, b) ==
    IF a = PosInf \/ b = PosInf THEN PosInf
    ELSE IF a = NegInf \/ b = NegInf THEN NegInf
    ELSE a + b
Neg(a) == IF a = PosInf THEN NegInf ELSE IF a = NegInf THEN PosInf ELSE -a
Minus(a, b) == Plus(a, Neg(b))
Abs(a) == IF a < 0 THEN Neg(a) ELSE a
\* np.sign(x)
sign(x) == IF x > 0 THEN 1 ELSE IF x < 0 THEN -1 ELSE 0
\* a * np.sign(dt); the product is only added to a time when a is finite
TimesSign(a, sg) == IF sg > 0 THEN a ELSE IF sg < 0 THEN Neg(a) ELSE 0
\* abs(a - b) < tol on integer-valued times: equal and finite
Near(a, b) == a = b /\ a # PosInf /\ a # NegInf

(***************************************************************************)
(* Collaborators of execute, modelled from their contracts                 *)
(***************************************************************************)
\* fieldset.gridset.dimrange('time_full')
FieldMaxTime == 4
FieldMinTime == -FieldMaxTime

\* fieldset.computeTimeChunk(time, direction): the time up to which input is
\* resident, one input step ahead in the run direction, or infinite when the
\* field is not chunked in time
computeTimeChunk(t, direction, input_step) ==
    IF direction > 0
    THEN (IF input_step = 0 THEN PosInf ELSE t + input_step)
    ELSE (IF input_step = 0 \/ direction = 0 THEN NegInf ELSE t - input_step)

\* kernel.execute(pset, endtime = t, dt): every particle is advanced to t
KernelAdvance(pl, t) ==
    SubSeq([b \in 1..Len(pl) |->
               SubSeq([k \in 1..Len(pl[b]) |-> [pl[b][k] EXCEPT !.time = t]],
                      1, Len(pl[b]))],
           1, Len(pl))

\* for sublist in ...: for p in sublist: p.dt = dt
StampDt(pl, d) ==
    SubSeq([b \in 1..Len(pl) |->
               SubSeq([k \in 1..Len(pl[b]) |-> [pl[b][k] EXCEPT !.dt = d]],
                      1, Len(pl[b]))],
           1, Len(pl))

(***************************************************************************)
(* execute                                                                 *)
(***************************************************************************)
\* longest event list kept in hist (a run that never ends repeats its events)
MaxLog == 6

CapAppend(seq, x) == IF Len(seq) < MaxLog THEN Append(seq, x) ELSE seq

Event(ev, t, k) == [ev |-> ev, t |-> t, k |-> k]

ParticleTimes(pl) ==
    LET flat == convert_pset_to_static_list(pl) IN {flat[k].time : k \in 1..Len(flat)}

\* a validation without the endtime/runtime conflict (C21 depends on the raise)
ValidArgs_NoConflict(a) ==
    /\ a.runtime = None \/ a.runtime >= 0
    /\ a.outputdt = None \/ a.outputdt >= 0
    /\ a.moviedt = None \/ a.moviedt >= 0

\* the checks and the RuntimeError that end execute before the run starts
ValidArgs(a) ==
    /\ a.runtime = None \/ a.runtime >= 0
    /\ a.outputdt = None \/ a.outputdt >= 0
    /\ a.moviedt = None \/ a.moviedt >= 0
    /\ ~(a.runtime # None /\ a.endtime # None)

\* _starttime: min of the particle times for dt >= 0, max otherwise
StartTime(pl, d) ==
    IF d >= 0 THEN SetMin(ParticleTimes(pl)) ELSE SetMax(ParticleTimes(pl))

\* an end time that ignores the run direction (C8 depends on sign(dt))
DeriveEndtime_Unsigned(a, starttime) ==
    IF a.runtime # None THEN starttime + a.runtime
    ELSE IF a.endtime = None
    THEN (IF a.dt >= 0 THEN FieldMaxTime ELSE FieldMinTime)
    ELSE a.endtime

\* endtime from runtime, from the argument, or from the field's time range
DeriveEndtime(a, starttime) ==
    IF a.runtime # None THEN starttime + a.runtime * sign(a.dt)
    ELSE IF a.endtime = None
    THEN (IF a.dt >= 0 THEN FieldMaxTime ELSE FieldMinTime)
    ELSE a.endtime

\* abs(endtime - _starttime) < 1e-5 or dt == 0 or runtime == 0
SingleShot(a, starttime, e) == e = starttime \/ a.dt = 0 \/ a.runtime = 0

\* callbackdt when it is not given: np.min([np.infty, moviedt, outputdt(, repeatdt)])
DefaultCallbackdt(movie, output, rdt) ==
    LET m == Min2(PosInf, Min2(movie, output))
    IN  IF rdt # None THEN Min2(m, rdt) ELSE m

\* a first release that is not moved past the start (C4 depends on the + 1)
FirstRelease_AtStart(rdt, rstart, t, d) ==
    IF rdt # None /\ rdt # 0
    THEN rstart + (Abs(t - rstart) \div rdt) * rdt * sign(d)
    ELSE (IF d > 0 THEN PosInf ELSE NegInf)

\* next_prelease at the start of the run
FirstRelease(rdt, rstart, t, d) ==
    IF rdt # None /\ rdt # 0
    THEN rstart + ((Abs(t - rstart) \div rdt) + 1) * rdt * sign(d)
    ELSE (IF d > 0 THEN PosInf ELSE NegInf)

\* a first event that is due at the start time itself (C23 depends on the
\* first event lying one interval after the start)
FirstEvent_AtStart(t, interval, d) == t

\* next_output, next_movie, next_callback at the start of the run
FirstEvent(t, interval, d) == IF d > 0 THEN Plus(t, interval) ELSE Minus(t, interval)

\* the scheduler state at the start of the loop, with the initial write and frame
ExecuteRun(a, starttime, once, d, e, odt, mdt, cdt) ==
    /\ pc' = "loop"
    /\ args' = a
    /\ dt' = d
    /\ endtime' = e
    /\ execute_once' = once
    /\ plist' = StampDt(plist, d)
    /\ outputdt' = odt
    /\ moviedt' = mdt
    /\ callbackdt' = cdt
    /\ time' = starttime
    /\ next_prelease' = FirstRelease(repeat.repeatdt, repeat.repeat_starttime, starttime, d)
    /\ next_output' = FirstEvent(starttime, odt, d)
    /\ next_movie' = FirstEvent(starttime, mdt, d)
    /\ next_callback' = FirstEvent(starttime, cdt, d)
    /\ next_input' = computeTimeChunk(starttime, sign(d), a.input_step)
    /\ iter' = [n |-> 0, target |-> starttime, pre |-> <<>>, events |-> <<>>]
    /\ hist' = [starttime |-> starttime, size0 |-> size(pid_mapping_bounds),
                kernel_calls |-> 0, kernel_end |-> None, removed |-> 0,
                releases |-> <<>>,
                writes |-> IF a.outputdt # None
                           THEN <<[t |-> starttime, n |-> size(pid_mapping_bounds),
                                   at |-> "start"]>>
                           ELSE <<>>,
                shows |-> IF a.moviedt # None /\ a.moviedt # 0
                          THEN <<starttime>> ELSE <<>>,
                callbacks |-> 0]
    /\ UNCHANGED <<pid_mapping_bounds, lastID, opVars, repeat>>

\* the intervals with their defaults: outputdt of the file or np.infty,
\* moviedt or np.infty, callbackdt or the smallest interrupting interval
ExecuteIntervals(a, starttime, once, d, e, odt, mdt) ==
    ExecuteRun(a, starttime, once, d, e, odt, mdt,
               IF a.callbackdt = None
               THEN DefaultCallbackdt(mdt, odt, repeat.repeatdt)
               ELSE a.callbackdt)

\* single-shot mode: dt = 0, runtime = 0, endtime = _starttime
ExecuteMode(a, starttime, e0, once) ==
    ExecuteIntervals(a, starttime, once,
                     IF once THEN 0 ELSE a.dt,
                     IF once THEN starttime ELSE e0,
                     IF a.outputdt = None THEN PosInf ELSE a.outputdt,
                     IF a.moviedt = None THEN PosInf ELSE a.moviedt)

ExecuteEnd(a, starttime, e0) == ExecuteMode(a, starttime, e0, SingleShot(a, starttime, e0))

ExecuteFrom(a, starttime) == ExecuteEnd(a, starttime, DeriveEndtime(a, starttime))

\* execute(...) up to the loop: validation, end time, single-shot mode, the
\* initial write and frame, the first event times
ExecuteStart(a) ==
    IF ~ValidArgs(a)
    THEN /\ pc' = "failed"
         /\ args' = a
         /\ UNCHANGED <<storeVars, opVars, repeat, dt, endtime, execute_once, time,
                        next_prelease, next_input, next_output, next_movie, next_callback,
                        outputdt, moviedt, callbackdt, iter, hist>>
    ELSE ExecuteFrom(a, StartTime(plist, a.dt))

\* while (time < endtime and dt > 0) or (time > endtime and dt < 0) or dt == 0
LoopCond == (time < endtime /\ dt > 0) \/ (time > endtime /\ dt < 0) \/ dt = 0

\* a target time that ignores endtime (C27 depends on endtime being a candidate)
Target_NoEnd ==
    LET five == {next_prelease, next_input, next_output, next_movie, next_callback}
    IN  IF dt > 0 THEN SetMin(five) ELSE SetMax(five)

\* min (dt > 0) or max (otherwise) of the five event times and endtime
Target ==
    LET six == {next_prelease, next_input, next_output, next_movie, next_callback, endtime}
    IN  IF dt > 0 THEN SetMin(six) ELSE SetMax(six)

\* the external kernel may delete a particle: here the first call of a run
\* with args.kernel_removes deletes the record at global index 0
KernelCall(pl, bd, t, removes) ==
    LET adv == KernelAdvance(pl, t)
    IN  IF removes
        THEN LET r == RemoveGlobal(adv, bd, <<0>>)
             IN  [plist |-> r.plist, bounds |-> r.bounds, removed |-> 1]
        ELSE [plist |-> adv, bounds |-> bd, removed |-> 0]

\* a release that does not stamp the new records (C25 depends on p.dt = dt)
Release_Unstamped(pl, bd, b, t, d) ==
    LET pset_new == ParticleSetInit(Len(repeat.repeatpid), repeat.repeatpid, b, t)
        r        == add(pl, bd, [plist |-> pset_new.plist, bounds |-> pset_new.bounds])
    IN  [plist |-> r.plist, bounds |-> r.bounds, lastID |-> pset_new.lastID]

\* pset_new = ParticleSet(time = t, pid_orig = self.repeatpid, ...); p.dt = dt;
\* self.add(pset_new)
Release(pl, bd, b, t, d) ==
    LET pset_new == ParticleSetInit(Len(repeat.repeatpid), repeat.repeatpid, b, t)
        stamped  == [plist |-> StampDt(pset_new.plist, d), bounds |-> pset_new.bounds]
        r        == add(pl, bd, stamped)
    IN  [plist |-> r.plist, bounds |-> r.bounds, lastID |-> pset_new.lastID]

AppendIf(c, seq, x) == IF c THEN Append(seq, x) ELSE seq

\* an iteration that writes before it releases (C5 depends on the order)
IterEvents_WriteFirst(t, rel, wr, mov, cb, chunk, n_after_release) ==
    AppendIf(chunk,
        AppendIf(mov,
            AppendIf(rel,
                AppendIf(wr, <<Event("kernel", t, 0)>>, Event("write", t, n_after_release)),
                Event("release", t, 0)),
            Event("show", t, 0))
        \o (IF cb /\ args.ncallbacks # None
            THEN [k \in 1..args.ncallbacks |-> Event("callback", t, k)]
            ELSE <<>>),
        Event("chunk", t, 0))

\* the events of one iteration after the kernel call, in the order of the code
IterEvents(t, rel, wr, mov, cb, chunk, n_after_release) ==
    AppendIf(chunk,
        AppendIf(mov,
            AppendIf(wr,
                AppendIf(rel, <<Event("kernel", t, 0)>>, Event("release", t, 0)),
                Event("write", t, n_after_release)),
            Event("show", t, 0))
        \o (IF cb /\ args.ncallbacks # None
            THEN [k \in 1..args.ncallbacks |-> Event("callback", t, k)]
            ELSE <<>>),
        Event("chunk", t, 0))

\* the number of the iteration; past MaxLog it alternates between MaxLog - 1
\* and MaxLog, so that an iteration of a run that never ends is still a step
NextIter(n) == IF n < MaxLog THEN n + 1 ELSE MaxLog - 1

\* an iteration that requests the next input chunk whatever its target is
AdvanceRequested_Always(t) == TRUE

\* if time != endtime: next_input = self.fieldset.computeTimeChunk(time, dt)
AdvanceRequested(t) == t # endtime

\* the rest of the iteration: event times advanced, input chunk requested
LoopEvents(t, sg, removed, r, rel, out, mov, cb) ==
    /\ plist' = r.plist
    /\ pid_mapping_bounds' = r.bounds
    /\ lastID' = r.lastID
    /\ next_prelease' = IF rel THEN Plus(next_prelease, TimesSign(repeat.repeatdt, sg))
                        ELSE next_prelease
    /\ next_output' = IF out THEN Plus(next_output, TimesSign(outputdt, sg))
                      ELSE next_output
    /\ next_movie' = IF mov THEN Plus(next_movie, TimesSign(moviedt, sg))
                     ELSE next_movie
    /\ next_callback' = IF cb THEN Plus(next_callback, TimesSign(callbackdt, sg))
                        ELSE next_callback
    /\ next_input' = IF AdvanceRequested(t) THEN computeTimeChunk(t, sg, args.input_step)
                     ELSE next_input
    /\ time' = t
    /\ pc' = IF dt = 0 THEN "exit" ELSE "loop"
    /\ iter' = [n |-> NextIter(iter.n), target |-> t,
                pre |-> [next_prelease |-> next_prelease, next_input |-> next_input,
                         next_output |-> next_output, next_movie |-> next_movie,
                         next_callback |-> next_callback, time |-> time],
                events |-> IterEvents(t, rel, out /\ args.outputdt # None, mov, cb,
                                      AdvanceRequested(t), size(r.bounds))]
    /\ hist' = [hist EXCEPT
                   !.kernel_calls = Min2(@ + 1, MaxLog),
                   !.kernel_end = t,
                   !.removed = Min2(@ + removed, 1),
                   !.releases = IF rel THEN CapAppend(@, t) ELSE @,
                   !.writes = IF out /\ args.outputdt # None
                              THEN CapAppend(@, [t |-> t, n |-> size(r.bounds),
                                                 at |-> "event"])
                              ELSE @,
                   !.shows = IF mov THEN CapAppend(@, t) ELSE @,
                   !.callbacks = IF cb /\ args.ncallbacks # None
                                 THEN Min2(@ + args.ncallbacks, MaxLog) ELSE @]
    /\ UNCHANGED <<opVars, repeat, args, dt, endtime, execute_once,
                   outputdt, moviedt, callbackdt>>

\* after the kernel call: the release, if its time has come
LoopRelease(t, k, rel) ==
    \E r \in {IF rel THEN Release(k.plist, k.bounds, lastID, t, dt)
               ELSE [plist |-> k.plist, bounds |-> k.bounds, lastID |-> lastID]} :
        LoopEvents(t, sign(dt), k.removed, r, rel,
                   Near(t, next_output), Near(t, next_movie), Near(t, next_callback))

\* time = min/max(...); self.kernel.execute(self, endtime = time, ...)
LoopKernel(t) ==
    \E k \in {KernelCall(plist, pid_mapping_bounds, t,
                          args.kernel_removes /\ hist.removed = 0)} :
        LoopRelease(t, k, Near(t, next_prelease))

\* one iteration of the stepping loop
LoopIter ==
    /\ pc = "loop"
    /\ LoopCond
    /\ \E t \in {Target} : LoopKernel(t)

\* after the loop: the final write, and execute returns
Finish ==
    /\ pc = "exit" \/ (pc = "loop" /\ ~LoopCond)
    /\ pc' = "done"
    /\ hist' = [hist EXCEPT !.writes =
                   IF args.outputdt # None
                   THEN CapAppend(@, [t |-> time, n |-> size(pid_mapping_bounds),
                                      at |-> "end"])
                   ELSE @]
    /\ UNCHANGED <<storeVars, opVars, repeat, args, dt, endtime, execute_once, time,
                   next_prelease, next_input, next_output, next_movie, next_callback,
                   outputdt, moviedt, callbackdt, iter>>

(***************************************************************************)
(* Arguments explored                                                      *)
(***************************************************************************)
\* size of the population (and of the repeat-release template) that execute runs on
Pop0 == 2
StartTimes == {0, 3}
RepeatDts == {None, 2, 3}
DtValues == {-1, 0, 1}
Runtimes == {None, 0, 5}
Endtimes == {None, 3}
OutputDts == {None, 0, 2}
MovieDts == {None, 0, 2}
CallbackDts == {None, 0, 1}
NCallbacks == {None, 2}
InputSteps == {0, 2}

ExecArgs ==
    [dt : DtValues, runtime : Runtimes, endtime : Endtimes, outputdt : OutputDts,
     moviedt : MovieDts, callbackdt : CallbackDts, ncallbacks : NCallbacks,
     input_step : InputSteps, kernel_removes : BOOLEAN]

NoArgs ==
    [dt |-> 0, runtime |-> None, endtime |-> None, outputdt |-> None, moviedt |-> None,
     callbackdt |-> None, ncallbacks |-> None, input_step |-> 0, kernel_removes |-> FALSE]

\* pset.execute(...)
Execute ==
    /\ pc = "idle"
    /\ \E a \in ExecArgs : ExecuteStart(a)

\* the scheduler variables before any execute call
ExecIdle(p) ==
    /\ pc = p
    /\ args = NoArgs
    /\ dt = 0 /\ endtime = 0 /\ execute_once = FALSE /\ time = 0
    /\ next_prelease = 0 /\ next_input = 0 /\ next_output = 0
    /\ next_movie = 0 /\ next_callback = 0
    /\ outputdt = 0 /\ moviedt = 0 /\ callbackdt = 0
    /\ iter = [n |-> 0, target |-> 0, pre |-> <<>>, events |-> <<>>]
    /\ hist = [starttime |-> 0, size0 |-> 0, kernel_calls |-> 0, kernel_end |-> None,
               removed |-> 0, releases |-> <<>>, writes |-> <<>>, shows |-> <<>>,
               callbacks |-> 0]

\* np.allclose(time, time[0]); the times of the model are integers, which are
\* close only when equal
allclose(times, t0) == \A i \in 1..Len(times) : times[i] = t0

\* the repeatdt block of __init__: "error" when a raise statement or the
\* IndexError of time[0] on an empty array is reached
RepeatCheck(rdt, times) ==
    IF rdt = None \/ rdt = 0 THEN "ok"
    ELSE IF rdt <= 0 THEN "error"
    ELSE IF Len(times) = 0 THEN "error"
    ELSE IF times[1] # 0 /\ ~allclose(times, times[1]) THEN "error"
    ELSE "ok"

NoRepeat == [repeatdt |-> None, repeat_starttime |-> None, repeatpid |-> <<>>]

(***************************************************************************)
(* Specifications                                                          *)
(***************************************************************************)
\* the store under construct / add / remove / pop
Init == InitStore /\ repeat = NoRepeat /\ ExecIdle("off")

Next == Add \/ ConstructEmpty \/ Remove \/ Pop

Spec == Init /\ [][Next]_vars

\* populations constructed one after the other in one process
MaxConstruct == 9
MaxConstructID == 16

InitConstruct ==
    /\ \E n \in 0..MaxConstruct :
          LET c == ParticleSetInit(n, arange(n), 0, 0)
          IN  /\ plist = c.plist
              /\ pid_mapping_bounds = c.bounds
              /\ lastID = c.lastID
              /\ last = [op |-> "construct", arg |-> <<n>>, outcome |-> "ok", ret |-> <<>>,
                         new |-> c, b |-> 0]
    /\ nops = 0
    /\ repeat = NoRepeat
    /\ ExecIdle("off")

\* ParticleSet(lon = n coordinates): the model follows the newest population
Construct ==
    \E n \in 0..MaxConstruct :
        /\ lastID + n <= MaxConstructID
        /\ LET c == ParticleSetInit(n, arange(n), lastID, 0)
           IN  /\ plist' = c.plist
               /\ pid_mapping_bounds' = c.bounds
               /\ lastID' = c.lastID
               /\ last' = History("construct", <<n>>, "ok", <<>>, c)
        /\ UNCHANGED <<nops, execVars>>

NextConstruct == Construct

SpecConstruct == InitConstruct /\ [][NextConstruct]_vars

\* populations constructed with a repeat interval and an array of start times
MaxRepeatN == 3
\* identities handed out to earlier populations of the process
MaxPrior == 2
TimeValues == {0, 1, 2}
RepeatDtArgs == {None, -1, 0, 2}
TimeArrays == UNION {[1..n -> TimeValues] : n \in 1..MaxRepeatN}

\* the population has not been constructed yet
InitRepeat ==
    /\ plist = <<>> /\ pid_mapping_bounds = <<>> /\ lastID \in 0..MaxPrior
    /\ last = [op |-> "none", arg |-> <<>>, outcome |-> "ok", ret |-> <<>>,
               new |-> NoPset, b |-> 0]
    /\ nops = 0
    /\ repeat = NoRepeat
    /\ ExecIdle("off")

\* ParticleSet(lon = Len(time) coordinates, time = time, repeatdt = rdt): a raise
\* in the repeatdt block leaves the counter alone and yields no population
ConstructRepeat ==
    \E times \in TimeArrays, rdt \in RepeatDtArgs :
        /\ last.op = "none"
        /\ LET c == ParticleSetInitTimes(Len(times), arange(Len(times)), lastID, times)
               o == RepeatCheck(rdt, times)
           IN  /\ last' = History("construct_repeat", <<rdt, times>>, o, <<>>,
                                  IF o = "ok" THEN c ELSE NoPset)
               /\ plist' = IF o = "ok" THEN c.plist ELSE plist
               /\ pid_mapping_bounds' = IF o = "ok" THEN c.bounds ELSE pid_mapping_bounds
               /\ lastID' = IF o = "ok" THEN c.lastID ELSE lastID
               /\ repeat' = IF o # "ok" THEN repeat
                            ELSE IF rdt = None THEN NoRepeat
                            ELSE IF rdt = 0
                            THEN [repeatdt |-> 0, repeat_starttime |-> None, repeatpid |-> <<>>]
                            ELSE [repeatdt |-> rdt, repeat_starttime |-> times[1],
                                  repeatpid |-> arange(Len(times))]
        /\ UNCHANGED <<nops, args, pc, dt, endtime, execute_once, time, next_prelease,
                       next_input, next_output, next_movie, next_callback,
                       outputdt, moviedt, callbackdt, iter, hist>>

NextRepeat == ConstructRepeat

SpecRepeat == InitRepeat /\ [][NextRepeat]_vars

\* ParticleSet(lon = Pop0 coordinates, time = s, repeatdt = rdt), then execute
InitExec ==
    /\ \E s \in StartTimes, rdt \in RepeatDts :
          LET c == ParticleSetInit(Pop0, arange(Pop0), 0, s)
          IN  /\ plist = c.plist
              /\ pid_mapping_bounds = c.bounds
              /\ lastID = c.lastID
              /\ last = [op |-> "construct", arg |-> <<Pop0>>, outcome |-> "ok",
                         ret |-> <<>>, new |-> c, b |-> 0]
              /\ repeat = IF rdt # None
                          THEN [repeatdt |-> rdt, repeat_starttime |-> s,
                                repeatpid |-> arange(Pop0)]
                          ELSE NoRepeat
    /\ nops = 0
    /\ ExecIdle("idle")

NextExec == Execute \/ LoopIter \/ Finish

SpecExec == InitExec /\ [][NextExec]_vars

\* pset.execute(...) with a kernel that deletes no particle
ExecuteKeep ==
    /\ pc = "idle"
    /\ \E a \in {x \in ExecArgs : ~x.kernel_removes} : ExecuteStart(a)

NextExecKeep == ExecuteKeep \/ LoopIter \/ Finish

\* once execute is running, the loop body runs to completion, the loop goes on
\* while its condition holds, and the code after the loop runs when it fails
SpecExecFair == InitExec /\ [][NextExecKeep]_vars /\ WF_vars(LoopIter \/ Finish)

(***************************************************************************)
(* Properties                                                              *)
(***************************************************************************)
Flat == convert_pset_to_static_list(plist)

\* number of occurrences of x in seq
Count(seq, x) == Cardinality({k \in 1..Len(seq) : seq[k] = x})

\* the two sequences hold the same records, each as often
SameRecords(s1, s2) ==
    \A x \in Range(s1) \cup Range(s2) : Count(s1, x) = Count(s2, x)

\* idx is a sequence of distinct global indices of a population of n records
DistinctInRange(idx, n) ==
    /\ \A k \in 1..Len(idx) : 0 <= idx[k] /\ idx[k] < n
    /\ \A j, k \in 1..Len(idx) : j # k => idx[j] # idx[k]

\* sum of the cached counts of the chunks before chunk b (0-based)
CountsBefore(bd, b) == SumCounts(SubSeq(bd, 1, b))

IsRemoval(h) == h.op \in {"remove", "pop"}

\* C1: remove(indices) / pop(indices) with distinct in-range global indices
\* removes exactly the records at those indices and no others, and size
\* decreases by the number of indices, also when a chunk is emptied and dropped.
C1_RemoveExact ==
    [][(IsRemoval(last') /\ nops' = nops + 1 /\ DistinctInRange(last'.arg, Len(Flat)))
        => /\ last'.outcome = "ok"
           /\ last'.ret = [k \in 1..Len(last'.arg) |-> Flat[last'.arg[k] + 1]]
           /\ SameRecords(convert_pset_to_static_list(plist'),
                          NumpyDelete(Flat, last'.arg))
           /\ size(pid_mapping_bounds') = size(pid_mapping_bounds) - Len(last'.arg)]_vars

\* C2: for every i with 0 <= i < size, get_list_array_index(i) and
\* __getitem__(i) resolve to the (chunk, slot) of the i-th record of the chunk
\* concatenation: the counts before the chunk sum to i - slot, 0 <= slot < count.
C2_ResolveByGlobalIndex ==
    \A i \in 0..(size(pid_mapping_bounds) - 1) :
        LET loc == get_list_array_index(pid_mapping_bounds, i)
            g   == getitem(plist, pid_mapping_bounds, i)
        IN  /\ ~loc.err
            /\ loc.bracket_index < Len(pid_mapping_bounds)
            /\ 0 <= loc.slot_index
            /\ loc.slot_index < pid_mapping_bounds[loc.bracket_index + 1][3]
            /\ CountsBefore(pid_mapping_bounds, loc.bracket_index) = i - loc.slot_index
            /\ ~g.err
            /\ i < Len(Flat) /\ g.p = Flat[i + 1]

DistinctIds == \A j, k \in 1..Len(Flat) : j # k => Flat[j].id # Flat[k].id

\* C9: the identity counter never decreases across constructions, so all
\* records created in one process have pairwise distinct ids.
C9_CounterMonotone == [][lastID' >= lastID /\ DistinctIds']_vars

\* ceil(n / nlist_limit)
CeilChunks(n) == (n + nlist_limit - 1) \div nlist_limit

\* C10: constructing from n >= 1 coordinates with counter value b yields
\* size n in ceil(n / nlist_limit) chunks, and the record at input position i
\* has id b + i.
C10_Construct ==
    (last.op = "construct" /\ last.arg[1] >= 1) =>
        LET n    == last.arg[1]
            flat == convert_pset_to_static_list(last.new.plist)
        IN  /\ size(last.new.bounds) = n
            /\ Len(last.new.plist) = CeilChunks(n)
            /\ Len(flat) = n
            /\ \A i \in 0..(n - 1) : flat[i + 1].id = last.b + i
            /\ \A i, j \in 1..n : i # j => flat[i].id # flat[j].id
            /\ \A i \in 1..n : last.b <= flat[i].id /\ flat[i].id < last.b + n

\* a population of three chunks, the last one partial, built from a counter > 0
C10_Witness ==
    /\ last.op = "construct" /\ last.arg[1] = 2 * nlist_limit + 1 /\ last.b > 0
    /\ Len(plist) = 3 /\ Len(plist[3]) = 1
    /\ plist[3][1].id = last.b + 2 * nlist_limit

\* the release times s + k * r * sign(dt), k >= 1, that lie within (s, e]
ExpectedReleases(s, e, r, sg) ==
    LET span == IF sg > 0 THEN e - s ELSE s - e
        K    == IF span > 0 THEN span \div r ELSE 0
    IN  [k \in 1..K |-> s + k * r * sg]

NormalRunDone == pc = "done" /\ ~execute_once

\* C4: in a normal-mode run with repeat interval r that starts at the recorded
\* repeat start time s, releases fire exactly at s + k*r*sign(dt), k >= 1,
\* within (s, e]; with a kernel that removes nothing the final size is the
\* initial size plus (number of releases) * (template size).
C4_Releases ==
    (NormalRunDone /\ repeat.repeatdt # None /\ repeat.repeat_starttime = hist.starttime)
    => /\ hist.releases =
              ExpectedReleases(hist.starttime, endtime, repeat.repeatdt, sign(args.dt))
       /\ ~args.kernel_removes =>
              size(pid_mapping_bounds) =
                  hist.size0 + Len(hist.releases) * Len(repeat.repeatpid)

\* a forward run of length 5 from 0 with repeat interval 2: releases at 2 and 4
C4_Witness ==
    /\ NormalRunDone /\ repeat.repeatdt = 2 /\ args.runtime = 5 /\ dt = 1
    /\ hist.starttime = 0 /\ ~args.kernel_removes
    /\ hist.releases = <<2, 4>>
    /\ size(pid_mapping_bounds) = Pop0 + 2 * Pop0

IsNotChunk(e) == e.ev # "chunk"
EventKey(e) == <<e.ev, e.t, IF e.ev = "callback" THEN e.k ELSE 0>>
Keys(events) == [k \in 1..Len(events) |-> EventKey(events[k])]

\* the events due at target time t, given the event times before the iteration
DueEvents(t, pre) ==
    <<<<"kernel", t, 0>>>>
    \o (IF Near(t, pre.next_prelease) THEN <<<<"release", t, 0>>>> ELSE <<>>)
    \o (IF Near(t, pre.next_output) /\ args.outputdt # None
        THEN <<<<"write", t, 0>>>> ELSE <<>>)
    \o (IF Near(t, pre.next_movie) THEN <<<<"show", t, 0>>>> ELSE <<>>)
    \o (IF Near(t, pre.next_callback) /\ args.ncallbacks # None
        THEN [k \in 1..args.ncallbacks |-> <<"callback", t, k>>] ELSE <<>>)

\* C5: in every iteration all release, output, animation and callback events
\* whose next time equals the target time fire in that iteration, after the
\* kernel call, in the order release, write, frame, callbacks (in
\* registration order).
C5_EventOrder ==
    (pc \in {"loop", "exit", "done"} /\ iter.n >= 1)
    => Keys(SelectSeq(iter.events, IsNotChunk)) = DueEvents(iter.target, iter.pre)

\* an iteration in which a release, a write, a frame and both callbacks fire
C5_Witness ==
    /\ pc = "loop" /\ iter.n >= 1
    /\ Keys(SelectSeq(iter.events, IsNotChunk)) =
           <<<<"kernel", iter.target, 0>>, <<"release", iter.target, 0>>,
             <<"write", iter.target, 0>>, <<"show", iter.target, 0>>,
             <<"callback", iter.target, 1>>, <<"callback", iter.target, 2>>>>

\* C6: for every accepted argument combination with dt # 0 the stepping loop
\* terminates.  (A run that does not terminate keeps taking LoopIter steps with
\* pc = "loop" and the time unchanged.)
C6_Terminates == (pc = "loop" /\ args.dt # 0) ~> (pc = "done")

\* C7: in single-shot mode the kernel is invoked exactly once with the start
\* time, no release, interval write, frame or callback fires in the loop, and
\* the writer is called only for the initial and the final write.
C7_SingleShot ==
    (pc = "done" /\ execute_once)
    => /\ hist.kernel_calls = 1
       /\ hist.kernel_end = hist.starttime
       /\ time = hist.starttime
       /\ hist.releases = <<>>
       /\ hist.callbacks = 0
       /\ \A k \in 1..Len(iter.events) : iter.events[k].ev = "kernel"
       /\ \A k \in 1..Len(hist.writes) : hist.writes[k].at \in {"start", "end"}

\* C8: a normal-mode run execute(runtime = R), R > 0, returns with the time
\* equal to start + R * sign(dt), which is the end time of the last kernel
\* call and the time of every particle; without repeat-release and with a
\* kernel that removes nothing the size is unchanged.
C8_RunReachesEnd ==
    (NormalRunDone /\ args.runtime # None)
    => /\ time = hist.starttime + args.runtime * sign(args.dt)
       /\ hist.kernel_end = time
       /\ \A k \in 1..Len(Flat) : Flat[k].time = time
       /\ (repeat.repeatdt = None /\ ~args.kernel_removes)
              => (size(pid_mapping_bounds) = hist.size0 /\ Len(Flat) = hist.size0)

\* a backward run of length 5 from 3 without repeat-release
C8_Witness ==
    /\ NormalRunDone /\ args.runtime = 5 /\ args.dt = -1 /\ hist.starttime = 3
    /\ time = -2 /\ hist.kernel_end = -2
    /\ repeat.repeatdt = None /\ ~args.kernel_removes
    /\ size(pid_mapping_bounds) = Pop0

\* C11: on a freshly constructed population of n records, before any add or
\* remove, __getitem__(i) returns the record inserted at input position i, for
\* every i in [0, n).
C11_FreshGetitem ==
    (last.op = "construct" /\ last.arg[1] >= 1) =>
        \A i \in 0..(last.arg[1] - 1) :
            getitem(plist, pid_mapping_bounds, i) =
                [err |-> FALSE, p |-> Particle(last.b + i, 0)]

\* the last record of a fresh population of three chunks, the last one partial
C11_Witness ==
    /\ last.op = "construct" /\ last.arg[1] = 2 * nlist_limit + 1 /\ last.b > 0
    /\ Len(plist) = 3
    /\ getitem(plist, pid_mapping_bounds, 2 * nlist_limit) =
           [err |-> FALSE, p |-> Particle(last.b + 2 * nlist_limit, 0)]

\* C12: pop(-k) and remove(-k) with 1 <= k <= size remove the record at global
\* index size - k of the chunk concatenation, and size decreases by exactly 1.
C12_NegativeIndexRemoval ==
    [][(/\ IsRemoval(last') /\ nops' = nops + 1
        /\ Len(last'.arg) = 1
        /\ last'.arg[1] < 0 /\ -last'.arg[1] <= size(pid_mapping_bounds)
        /\ size(pid_mapping_bounds) = Len(Flat))
        => /\ last'.outcome = "ok"
           /\ last'.ret = <<Flat[Len(Flat) + last'.arg[1] + 1]>>
           /\ SameRecords(convert_pset_to_static_list(plist'),
                          NumpyDelete(Flat, <<Len(Flat) + last'.arg[1]>>))
           /\ size(pid_mapping_bounds') = size(pid_mapping_bounds) - 1]_vars

\* C13: on every non-empty store, resolving index -1 through
\* get_list_array_index / __getitem__ yields the last record of the whole chunk
\* concatenation, whatever the number of chunks.
C13_MinusOneIsLast ==
    Len(Flat) > 0 =>
        LET loc == get_list_array_index(pid_mapping_bounds, -1)
            g   == getitem(plist, pid_mapping_bounds, -1)
        IN  /\ ~loc.err
            /\ ~g.err
            /\ g.p = Flat[Len(Flat)]

\* how far beyond the size an index is tried
MaxBeyond == 3

\* C14: for every index i >= size, get_list_array_index(i) and __getitem__(i)
\* fail with an error; they never return a (chunk, slot) pair or a record.
C14_BeyondSizeFails ==
    \A i \in size(pid_mapping_bounds)..(size(pid_mapping_bounds) + MaxBeyond) :
        /\ get_list_array_index(pid_mapping_bounds, i).err
        /\ getitem(plist, pid_mapping_bounds, i).err

\* the records at the requested global indices, in the order of the request
Requested(flat, indices) == [k \in 1..Len(indices) |-> flat[indices[k] + 1]]

\* C15: pop(indices) returns the removed records in the order in which their
\* indices were requested, also when the indices fall into different chunks in
\* non-ascending chunk order.  (Stated for the calls that return exactly the
\* requested records.)
C15_PopOrder ==
    [][(/\ last'.op = "pop" /\ nops' = nops + 1
        /\ DistinctInRange(last'.arg, Len(Flat))
        /\ last'.outcome = "ok"
        /\ SameRecords(last'.ret, Requested(Flat, last'.arg)))
        => last'.ret = Requested(Flat, last'.arg)]_vars

\* C16: on every store whose records have unique ids and for every live record
\* p, get_list_array_index(p) returns the (chunk, slot) at which the record with
\* id p.id is stored, also when the id ranges of different chunks overlap.
C16_IdentityLookup ==
    DistinctIds =>
        \A b \in 1..Len(plist) : \A k \in 1..Len(plist[b]) :
            get_list_array_index_of_particle(plist, pid_mapping_bounds, plist[b][k].id)
                = Located(b - 1, k - 1)

\* the ids a lookup is tried with
LookupIds == 0..(MaxID + 1)

\* the ids held by the records of the store
LiveIds == {Flat[k].id : k \in 1..Len(Flat)}

\* C17: for every particle whose id is held by no record of the store,
\* get_list_array_index(particle) ends in the not-found outcome (-1), whether
\* the id lies inside some chunk's [min_id, max_id] range or outside every range.
\* (Stated for the stores that hold at least one record.)
C17_AbsentIdNotFound ==
    Len(Flat) > 0 =>
        \A id \in LookupIds \ LiveIds :
            get_list_array_index_of_particle(plist, pid_mapping_bounds, id) = NotFound

C19_MergeIdempotent ==
    LET m1 == _merge_brackets_(plist, pid_mapping_bounds)
        m2 == _merge_brackets_(m1.plist, m1.bounds)
    IN  ~m1.err => /\ ~m2.err
                   /\ m2.plist = m1.plist
                   /\ m2.bounds = m1.bounds

\* four undersized chunks: the first compaction merges twice
C19_Witness ==
    LET m1 == _merge_brackets_(plist, pid_mapping_bounds)
    IN  /\ Cardinality(Undersized(plist, pid_mapping_bounds)) >= 4
        /\ ~m1.err
        /\ Len(m1.plist) = Len(plist) - 2
        /\ convert_pset_to_static_list(m1.plist) = Flat

\* the b for which chunks b and b + 1 are both undersized by their real length
UndersizedPairs ==
    {b \in 1..(Len(plist) - 1) :
        Len(plist[b]) < lw_bound_nlist /\ Len(plist[b + 1]) < lw_bound_nlist}

\* C20: at rest (between operations) the store never holds more than one pair of
\* adjacent chunks that are both undersized.
C20_OneUndersizedPair ==
    Cardinality(UndersizedPairs) <= 1

\* C21: an execute call that is given both endtime and runtime fails before the
\* run starts: no kernel call, no write, no frame, no release and no callback
\* happens, and the population is the one execute was called on.
C21_ConflictFails ==
    (pc # "idle" /\ args.runtime # None /\ args.endtime # None)
        => /\ pc = "failed"
           /\ hist.kernel_calls = 0 /\ hist.kernel_end = None
           /\ hist.writes = <<>> /\ hist.shows = <<>>
           /\ hist.releases = <<>> /\ hist.callbacks = 0
           /\ iter.n = 0 /\ iter.events = <<>>
           /\ plist = last.new.plist /\ pid_mapping_bounds = last.new.bounds
           /\ size(pid_mapping_bounds) = Pop0 /\ lastID = last.new.lastID

\* a conflicting call on a repeat-release population with a writer and callbacks
C21_Witness ==
    /\ pc = "failed" /\ args.runtime = 5 /\ args.endtime = 3 /\ args.dt = 1
    /\ args.outputdt = 2 /\ args.ncallbacks = 2 /\ repeat.repeatdt = 2
    /\ Len(Flat) = Pop0

\* the time array holds two different times
NonUniform(times) == \E i, j \in 1..Len(times) : times[i] # times[j]

\* C22: constructing a population with a repeat-release interval and start times
\* that are not all equal fails with an error, whatever the first time is.
C22_NonUniformTimesFail ==
    (last.op = "construct_repeat" /\ last.arg[1] # None /\ last.arg[1] > 0
        /\ NonUniform(last.arg[2]))
        => /\ last.outcome = "error"
           /\ last.new = NoPset

InRun == pc \in {"loop", "exit", "done"}

WriteTimes(writes) == [k \in 1..Len(writes) |-> <<writes[k].at, writes[k].t>>]

\* the writes up to current time t of a run from s: the one at the start, one
\* per output event s + k * odt * sg reached so far, the one after the loop
WritesUpTo(s, t, odt, sg, finished) ==
    <<<<"start", s>>>>
    \o [k \in 1..(Abs(t - s) \div odt) |-> <<"event", s + k * odt * sg>>]
    \o (IF finished THEN <<<<"end", t>>>> ELSE <<>>)

\* C23: in a normal-mode run with an output file the writer is called once at
\* the start time before the first kernel call, once at each output event time
\* start + k * outputdt * sign(dt) that the loop has reached, once after the loop
\* at the final time, and never otherwise; without an output file it is never
\* called.
C23_Writes ==
    (InRun /\ ~execute_once)
        => /\ args.outputdt = None => hist.writes = <<>>
           /\ (args.outputdt # None /\ args.outputdt > 0)
                  => /\ WriteTimes(hist.writes) =
                            WritesUpTo(hist.starttime, time, outputdt, sign(dt), pc = "done")
                     /\ (pc = "loop" /\ hist.kernel_calls = 0)
                            => WriteTimes(hist.writes) = <<<<"start", hist.starttime>>>>
                     /\ \A k \in 1..Len(iter.events) :
                            iter.events[k].ev = "write"
                                => /\ k > 1 /\ iter.events[1].ev = "kernel"
                                   /\ iter.events[k].t = time

\* a backward run of length 5 from 3 with outputdt 2: writes at 3, 1, -1, -2
C23_Witness ==
    /\ NormalRunDone /\ args.outputdt = 2 /\ args.runtime = 5 /\ args.dt = -1
    /\ hist.starttime = 3
    /\ WriteTimes(hist.writes) = <<<<"start", 3>>, <<"event", 1>>, <<"event", -1>>, <<"end", -2>>>>

\* C24: after every iteration of the stepping loop each function of
\* postIterationCallbacks has been called once in that iteration, whatever event
\* set the iteration's target time and also when callbackdt is not given.
C24_CallbacksEveryIteration ==
    (InRun /\ iter.n >= 1 /\ args.ncallbacks # None)
        => \A k \in 1..args.ncallbacks :
               Count(iter.events, Event("callback", iter.target, k)) = 1

\* the positions of the events named ev in the event list of the last iteration
EventAt(ev) == {k \in 1..Len(iter.events) : iter.events[k].ev = ev}

\* C25: when a release and an output event fall on the same target time, the
\* write comes after the release and the population it is given already holds
\* the records released at that time, each with the target time and the run's dt.
C25_WriteSeesRelease ==
    (InRun /\ iter.n >= 1 /\ EventAt("release") # {} /\ EventAt("write") # {})
        => LET k == Len(repeat.repeatpid)
               n == Len(Flat)
           IN  /\ \A i \in EventAt("release"), j \in EventAt("write") :
                      /\ i < j
                      /\ iter.events[i].t = iter.target /\ iter.events[j].t = iter.target
                      /\ iter.events[j].k = n
               /\ n >= k
               /\ \A j \in 1..k :
                      Flat[n - k + j] = [id |-> lastID - k + j - 1, time |-> iter.target,
                                          dt |-> dt]
               /\ Len(hist.writes) < MaxLog
                      => hist.writes[Len(hist.writes) - (IF pc = "done" THEN 1 ELSE 0)]
                             = [t |-> iter.target, n |-> n, at |-> "event"]

\* a forward run in which the release and the write at time 2 coincide
C25_Witness ==
    /\ pc = "loop" /\ ~execute_once /\ dt = 1 /\ iter.target = 2
    /\ EventAt("release") = {2} /\ EventAt("write") = {3}
    /\ Len(Flat) = 2 * Pop0 /\ Flat[2 * Pop0].dt = 1 /\ Flat[2 * Pop0].time = 2

Candidates(pre) ==
    {pre.next_prelease, pre.next_input, pre.next_output, pre.next_movie,
     pre.next_callback, endtime}

AllSlots(n) == [k \in 1..n |-> k - 1]

\* C28: when _remove_ deletes every record of a chunk and the store holds more
\* than one chunk, exactly that chunk and the summary at its position are
\* dropped and the others keep contents, summaries and order; when it is the
\* only chunk it is kept, empty, with count 0 and the sentinel bounds.
C28_EmptiedChunk ==
    Len(pid_mapping_bounds) = Len(plist)
        => \A b \in 0..(Len(plist) - 1) :
               Len(plist[b + 1]) > 0
                   => LET r == _remove_(plist, pid_mapping_bounds, b,
                                        AllSlots(Len(plist[b + 1])))
                      IN  /\ ~r.err
                          /\ r.ret = plist[b + 1]
                          /\ IF Len(plist) > 1
                             THEN /\ r.plist = DelAt(plist, b)
                                  /\ r.bounds = DelAt(pid_mapping_bounds, b)
                             ELSE /\ r.plist = <<<<>>>>
                                  /\ r.bounds = <<<<int32_max, int32_min, 0>>>>
                                  /\ size(r.bounds) = 0

RECURSIVE IsSubseq(_, _)
\* s is t with some elements left out: the elements of s keep their order in t
IsSubseq(s, t) ==
    IF s = <<>> THEN TRUE
    ELSE IF t = <<>> THEN FALSE
    ELSE IF Head(s) = Head(t) THEN IsSubseq(Tail(s), Tail(t))
    ELSE IsSubseq(s, Tail(t))

\* C29: remove / pop, compaction included, never reorders records: the records
\* held after the call appear in the same relative global order as before it.
C29_OrderKept ==
    [][(IsRemoval(last') /\ nops' = nops + 1 /\ last'.outcome = "ok")
        => IsSubseq(convert_pset_to_static_list(plist'), Flat)]_vars


(***************************************************************************)
(* The store with small, half and full chunks                              *)
(***************************************************************************)
MaxCapTotal == 7
MaxCapID == 7
MaxCapOps == 5
\* sizes of the populations that are constructed and added
CapSizes == {1, lw_bound_nlist, nlist_limit}

InitCap ==
    /\ \E n \in CapSizes :
          LET c == ParticleSetInit(n, arange(n), 0, 0)
          IN  /\ plist = c.plist
              /\ pid_mapping_bounds = c.bounds
              /\ lastID = c.lastID
              /\ last = [op |-> "construct", arg |-> <<n>>, outcome |-> "ok", ret |-> <<>>,
                         new |-> c, b |-> 0]
    /\ nops = 0
    /\ repeat = NoRepeat
    /\ ExecIdle("off")

\* pset.add(ParticleSet(lon = n coordinates))
CapAdd ==
    \E n \in CapSizes :
        /\ nops < MaxCapOps
        /\ nops' = nops + 1
        /\ size(pid_mapping_bounds) + n <= MaxCapTotal
        /\ lastID + n <= MaxCapID
        /\ LET c == ParticleSetInit(n, arange(n), lastID, 0)
               r == add(plist, pid_mapping_bounds, c)
           IN  /\ plist' = r.plist
               /\ pid_mapping_bounds' = r.bounds
               /\ lastID' = c.lastID
               /\ last' = History("add", <<n>>, "ok", <<>>, c)
               /\ UNCHANGED execVars

\* ParticleSet(lon = [], lat = [])
CapConstructEmpty ==
    LET c == ParticleSetInit(0, <<>>, lastID, 0)
    IN  /\ nops < MaxCapOps
        /\ nops' = nops + 1
        /\ lastID' = c.lastID
        /\ last' = History("construct_empty", <<0>>, "ok", <<>>, c)
        /\ UNCHANGED <<plist, pid_mapping_bounds, execVars>>

\* pset.remove(i) with one index of the population
CapRemove ==
    \E i \in 0..(size(pid_mapping_bounds) - 1) :
        LET r == RemoveGlobal(plist, pid_mapping_bounds, <<i>>)
        IN  /\ nops < MaxCapOps
            /\ nops' = nops + 1
            /\ plist' = r.plist
            /\ pid_mapping_bounds' = r.bounds
            /\ last' = History("remove", <<i>>, r.outcome, r.ret, NoPset)
            /\ UNCHANGED <<lastID, execVars>>

NextCap == CapAdd \/ CapConstructEmpty \/ CapRemove

SpecCap == InitCap /\ [][NextCap]_vars

\* C30: no chunk ever holds more than nlist_limit records, in every state
\* reached by construction, add, remove, pop and compaction merges.
C30_Capacity ==
    \A b \in 1..Len(plist) : Len(plist[b]) <= nlist_limit

\* the chunks that are undersized by their real length
UndersizedChunks(pl) == {b \in 1..Len(pl) : Len(pl[b]) < lw_bound_nlist}

\* C31: when remove or pop returns, at most one chunk holds fewer than
\* nlist_limit / 2 records, by its real length and by its cached count,
\* whatever the layout was before the call.
C31_NoUndersizedPairLeft ==
    [][(IsRemoval(last') /\ nops' = nops + 1 /\ last'.outcome = "ok")
        => /\ Cardinality(UndersizedChunks(plist')) <= 1
           /\ Cardinality(Undersized(plist', pid_mapping_bounds')) <= 1]_vars

\* the last iteration of the run asked the field for the next input chunk
ChunkRequested == \E i \in 1..Len(iter.events) : iter.events[i].ev = "chunk"

\* C32: at the end of a loop iteration the input-chunk advance is requested
\* if and only if the iteration's target time differs from the end time; the
\* final iteration of a stepping run has the end time as its target and does
\* not request it.
C32_AdvanceUnlessAtEnd ==
    (InRun /\ iter.n > 0)
        => /\ ChunkRequested <=> iter.target # endtime
           /\ ChunkRequested => iter.events[Len(iter.events)] = Event("chunk", iter.target, 0)
           /\ (pc = "done" /\ dt # 0) => (iter.target = endtime /\ ~ChunkRequested)

\* a run that has done an iteration with a chunk request and is now done
\* after a final iteration without one
C32_Witness ==
    /\ pc = "done" /\ dt = 1 /\ iter.n >= 2 /\ iter.target = endtime
    /\ ~ChunkRequested /\ iter.pre.time # hist.starttime /\ iter.pre.time # endtime
    /\ args.input_step = 2 /\ iter.pre.next_input = next_input

\* C33: pop and remove with a scalar integer index terminate on every
\* reachable store, also on an emptied store and for a negative index: the
\* negative-index wrap loop ends and the call removes a record or fails.
C33_ScalarRemovalTerminates ==
    (IsRemoval(last) /\ Len(last.arg) = 1) => last.outcome \in {"ok", "error"}

(***************************************************************************)
(* execute called again on the population that an earlier call left        *)
(***************************************************************************)
MaxRunLength == 3
\* the calls explored: a stepping run of MaxRunLength, or up to the end of
\* the field, with no writer, no movie, no callbacks and a kernel that keeps
\* every particle
AgainArgs ==
    {[NoArgs EXCEPT !.dt = d, !.runtime = r] :
        d \in DtValues \ {0}, r \in {None, MaxRunLength}}

InitExecAgain == InitExec /\ repeat.repeatdt # None

\* the first pset.execute(...) of a repeat-release population
ExecuteFirst ==
    /\ pc = "idle"
    /\ \E a \in AgainArgs : ExecuteStart(a)

\* a further pset.execute(...) after a call that began at the repeat start
\* time has returned
ExecuteAgain ==
    /\ pc = "done"
    /\ hist.starttime = repeat.repeat_starttime
    /\ \E a \in AgainArgs : ExecuteStart(a)

NextExecAgain == ExecuteFirst \/ ExecuteAgain \/ LoopIter \/ Finish

SpecExecAgain == InitExecAgain /\ [][NextExecAgain]_vars

\* C34: at the start of every execute call with repeat-release enabled and
\* dt # 0 the first release time lies strictly ahead of the start time in the
\* run direction and at most one repeat interval ahead, wherever the start
\* time lies relative to the recorded repeat start time.
C34_FirstReleaseWithinInterval ==
    (pc = "loop" /\ iter.n = 0 /\ dt # 0 /\ repeat.repeatdt # None /\ repeat.repeatdt # 0)
        => /\ 0 < (next_prelease - time) * sign(dt)
           /\ (next_prelease - time) * sign(dt) <= repeat.repeatdt

\* the scheduler state of a run
Sched(d, e, t, nr, ni, no, nm, nc) ==
    [dt |-> d, endtime |-> e, time |-> t, next_prelease |-> nr, next_input |-> ni,
     next_output |-> no, next_movie |-> nm, next_callback |-> nc]

\* the scheduler state of the current run, and the one its last iteration began in
CurSched ==
    Sched(dt, endtime, time, next_prelease, next_input, next_output, next_movie,
          next_callback)
PreSched ==
    Sched(dt, endtime, iter.pre.time, iter.pre.next_prelease, iter.pre.next_input,
          iter.pre.next_output, iter.pre.next_movie, iter.pre.next_callback)

\* the image 2s - x of a time x, with -inf for +inf
MirrorTime(s, x) == Minus(2 * s, x)

\* the scheduler state of the run in the other direction that mirrors st
MirrorSched(s, st) ==
    Sched(-st.dt, MirrorTime(s, st.endtime), MirrorTime(s, st.time),
          MirrorTime(s, st.next_prelease), MirrorTime(s, st.next_input),
          MirrorTime(s, st.next_output), MirrorTime(s, st.next_movie),
          MirrorTime(s, st.next_callback))

\* one loop iteration as a function of the scheduler state: the target time,
\* the events that fire at it and the scheduler state it leaves
SchedStep(st) ==
    LET six == {st.next_prelease, st.next_input, st.next_output, st.next_movie,
                st.next_callback, st.endtime}
        t   == IF st.dt > 0 THEN SetMin(six) ELSE SetMax(six)
        sg  == sign(st.dt)
        rel == Near(t, st.next_prelease)
        out == Near(t, st.next_output)
        mov == Near(t, st.next_movie)
        cb  == Near(t, st.next_callback)
        chk == t # st.endtime
    IN  [target |-> t,
         fired  |-> [release |-> rel, output |-> out, movie |-> mov, callback |-> cb,
                     chunk |-> chk],
         sched  |-> Sched(st.dt, st.endtime, t,
                          IF rel THEN Plus(st.next_prelease, TimesSign(repeat.repeatdt, sg))
                          ELSE st.next_prelease,
                          IF chk
                          THEN computeTimeChunk(t, sg, args.input_step)
                          ELSE st.next_input,
                          IF out THEN Plus(st.next_output, TimesSign(outputdt, sg))
                          ELSE st.next_output,
                          IF mov THEN Plus(st.next_movie, TimesSign(moviedt, sg))
                          ELSE st.next_movie,
                          IF cb THEN Plus(st.next_callback, TimesSign(callbackdt, sg))
                          ELSE st.next_callback)]

\* the scheduler state in which the call with step d starts its loop at s
SchedStart(s, d) ==
    Sched(d, DeriveEndtime([args EXCEPT !.dt = d], s), s,
          FirstRelease(repeat.repeatdt, repeat.repeat_starttime, s, d),
          computeTimeChunk(s, sign(d), args.input_step),
          FirstEvent(s, outputdt, d), FirstEvent(s, moviedt, d),
          FirstEvent(s, callbackdt, d))

\* SchedStep on the mirror image of st gives the mirror image of SchedStep on st
StepMirrored(s, st) ==
    LET f == SchedStep(st)
        b == SchedStep(MirrorSched(s, st))
    IN  /\ b.target = MirrorTime(s, f.target)
        /\ b.fired = f.fired
        /\ b.sched = MirrorSched(s, f.sched)

\* a stepping run given by its length
RunOfLength ==
    /\ InRun /\ ~execute_once /\ dt # 0
    /\ args.runtime # None /\ args.endtime = None

\* C35: for the same population, start time s, run length and event
\* intervals, the run with step -dt produces the mirror images 2s - t of the
\* target times t of the run with step +dt, in the same order and with the
\* same events at each.  The run is the sequence of SchedStep from SchedStart;
\* the loop of the other direction starts in the mirror image of this run's
\* start and every iteration of it is the mirror image of this run's iteration.
C35_MirrorSymmetry ==
    RunOfLength
        => /\ iter.n = 0 => /\ CurSched = SchedStart(hist.starttime, dt)
                            /\ SchedStart(hist.starttime, -dt)
                                   = MirrorSched(hist.starttime, CurSched)
           /\ iter.n > 0 => /\ SchedStep(PreSched).sched = CurSched
                            /\ SchedStep(PreSched).target = iter.target
                            /\ StepMirrored(hist.starttime, PreSched)

RECURSIVE ConcatFrom(_, _, _)
\* for bracket_index in range(from, len(pl)): result = np.concatenate((result, pl[bracket_index]))
ConcatFrom(pl, bracket_index, result) ==
    IF bracket_index >= Len(pl) THEN result
    ELSE ConcatFrom(pl, bracket_index + 1, result \o pl[bracket_index + 1])

\* the particles property: None for a store without chunks, else the first
\* chunk, extended by every chunk from index 0 on when there are several
particles(pl) ==
    IF Len(pl) = 0 THEN None
    ELSE IF Len(pl) > 1 THEN ConcatFrom(pl, 0, pl[1])
    ELSE pl[1]

\* C36: the flattened particles view lists every live record exactly once in
\* chunk-concatenation order: on every reachable non-empty store its length
\* equals size and its contents equal convert_pset_to_static_list(), with one
\* chunk or several.
C36_ParticlesView ==
    Len(Flat) > 0
        => /\ particles(plist) = Flat
           /\ Len(particles(plist)) = size(pid_mapping_bounds)
=============================================================================
